---- MODULE Spec2Model ----
(***************************************************************************)
(* State-machine model of the reserve-data exchange bootstrap              *)
(* (configuration.NewExchangePool, AsyncUpdateDepositAddress) and of the   *)
(* bolt-backed ledger (huobi.BoltStorage).                                 *)
(*                                                                         *)
(* Three specifications share the module:                                  *)
(*   Spec      the trade-history partition of one BoltStorage              *)
(*   SpecTx    the pending and confirmed partitions of one BoltStorage     *)
(*   SpecBoot  NewExchangePool with its provisioning goroutines            *)
(*                                                                         *)
(* Representation choices                                                  *)
(*   - a uint64 is four 16-bit limbs, most significant first, so that the  *)
(*     64-bit width (wrap-around of the subtraction, the value 2^64 - 1)   *)
(*     is kept;                                                            *)
(*   - a []byte is a sequence of numbers 0..255, nil is the empty one;     *)
(*   - a bolt bucket is a function from keys to values (a nested bucket is *)
(*     a function from names to buckets); cursors walk the keys in         *)
(*     bytes.Compare order;                                                *)
(*   - a JSON document is the record [json |-> v] of the value it encodes  *)
(*     (encoding/json is lossless on the struct types stored here).        *)
(***************************************************************************)
EXTENDS Integers, Sequences, FiniteSets, TLC

VARIABLES
    confirmed,   \* bucket INTERMEDIATE_TX: ActivityID.ToBytes() -> JSON(TXEntry)
    pending,     \* bucket PENDING_INTERMEDIATE_TX: JSON(ActivityID) -> JSON(TXEntry)
    trade,       \* bucket TRADE_HISTORY: exchange -> pair -> 8 bytes -> JSON(TradeHistory)
    ret,         \* the ledger call that last returned: [op, args, result, err]
    params,      \* KYBER_EXCHANGES split at ","
    unresolvable,\* the token IDs setting.GetInternalTokenByID fails on
    idx,         \* position of NewExchangePool's loop in params
    opc,         \* where NewExchangePool stands
    spawned,     \* token IDs of the current exchange whose goroutine was started
    task,        \* token ID -> position of its AsyncUpdateDepositAddress goroutine
    wait,        \* the counter of the sync.WaitGroup of the current exchange
    depositCalls,\* sequence of <<exchange, token, addr>>: ex.UpdateDepositAddress calls
    precisionCalls, \* sequence of exchanges: UpdatePairsPrecision calls
    built,       \* exchanges whose adapter constructor returned without error
    exchanges,   \* the map exchanges: ExchangeID -> adapter (named by its exchange)
    outcome,     \* what NewExchangePool returned: "none", "pool" or "error"
    terminated,  \* the process has exited on an unrecovered panic
    writer,      \* the open read-write bolt transaction, or NoTx
    reader,      \* the open read-only bolt transaction, or NoTx
    complete,    \* TRADE_HISTORY as the operations that have committed left it
    interfaces,  \* exchange -> environment tag -> Interface: the three tables
    resolved,    \* the get...Interface call that last returned
    http,        \* HttpRunnerServer.http: 0 for nil, else the http.Server it points to
    created,     \* number of http.Server values made so far
    listening,   \* the http.Server values whose listener is open
    blocked,     \* the http.Server values whose Start call is inside ListenAndServe
    srvRet       \* the last step of a Start or Stop call: [op, err, returned]

ledgerVars == <<confirmed, pending, trade, ret>>
bootVars == <<params, unresolvable, idx, opc, spawned, task, wait, depositCalls,
              precisionCalls, built, exchanges, outcome, terminated>>
concVars == <<writer, reader, complete>>
envVars == <<interfaces, resolved>>
serverVars == <<http, created, listening, blocked, srvRet>>
auxVars == <<writer, reader, complete, interfaces, resolved, http, created, listening,
             blocked, srvRet>>
vars == <<confirmed, pending, trade, ret, params, unresolvable, idx, opc, spawned,
          task, wait, depositCalls, precisionCalls, built, exchanges, outcome,
          terminated, writer, reader, complete, interfaces, resolved, http, created,
          listening, blocked, srvRet>>

(***************************************************************************)
(* uint64 arithmetic on limbs                                              *)
(***************************************************************************)
Limb == 256 * 256

\* The uint64 of a number below 2^31.
U64(n) == <<0, 0, n \div Limb, n % Limb>>

MaxUint64 == <<Limb - 1, Limb - 1, Limb - 1, Limb - 1>>

\* a - b on uint64: modulo 2^64, as Go computes it.
U64Sub(a, b) ==
    LET d4 == a[4] - b[4]
        c4 == IF d4 < 0 THEN 1 ELSE 0
        d3 == a[3] - b[3] - c4
        c3 == IF d3 < 0 THEN 1 ELSE 0
        d2 == a[2] - b[2] - c3
        c2 == IF d2 < 0 THEN 1 ELSE 0
        d1 == a[1] - b[1] - c2
        c1 == IF d1 < 0 THEN 1 ELSE 0
    IN  <<d1 + c1 * Limb, d2 + c2 * Limb, d3 + c3 * Limb, d4 + c4 * Limb>>

\* a < b on uint64.
U64Less(a, b) ==
    \E i \in 1..4 : a[i] < b[i] /\ \A j \in 1..(i - 1) : a[j] = b[j]

U64Leq(a, b) == a = b \/ U64Less(a, b)

MAX_GET_TRADE_HISTORY == 3 * 86400000

(***************************************************************************)
(* Byte strings and the bolt bucket                                        *)
(***************************************************************************)
Nil == << >>

\* binary.LittleEndian.PutUint64: the byte order the code does not use.
uint64ToBytesLittleEndian(u) ==
    << u[4] % 256, u[4] \div 256, u[3] % 256, u[3] \div 256,
       u[2] % 256, u[2] \div 256, u[1] % 256, u[1] \div 256 >>

\* binary.BigEndian.PutUint64 into 8 bytes.
uint64ToBytes(u) ==
    << u[1] \div 256, u[1] % 256, u[2] \div 256, u[2] % 256,
       u[3] \div 256, u[3] % 256, u[4] \div 256, u[4] % 256 >>

RECURSIVE CompareFrom(_, _, _)
CompareFrom(a, b, i) ==
    IF i > Len(a) /\ i > Len(b) THEN 0
    ELSE IF i > Len(a) THEN -1
    ELSE IF i > Len(b) THEN 1
    ELSE IF a[i] < b[i] THEN -1
    ELSE IF a[i] > b[i] THEN 1
    ELSE CompareFrom(a, b, i + 1)

\* bytes.Compare: -1, 0 or 1, lexicographic.
BytesCompare(a, b) == CompareFrom(a, b, 1)

EmptyBucket == [k \in {} |-> k]

\* Bucket.Put that keeps an existing value: the upsert lost.
BucketPutIfAbsent(b, k, v) ==
    [x \in DOMAIN b \cup {k} |-> IF x \in DOMAIN b THEN b[x] ELSE v]

\* Bucket.Put: insert, or overwrite the value under an existing key.
BucketPut(b, k, v) ==
    [x \in DOMAIN b \cup {k} |-> IF x = k THEN v ELSE b[x]]

\* Bucket.Delete: no-op when the key is absent.
BucketDelete(b, k) == [x \in DOMAIN b \ {k} |-> b[x]]

\* Bucket.CreateBucketIfNotExists on a parent bucket: the nested bucket.
CreateBucketIfNotExists(parent, name) ==
    IF name \in DOMAIN parent THEN parent[name] ELSE EmptyBucket

MinKey(S) == CHOOSE k \in S : \A x \in S : BytesCompare(k, x) <= 0
MaxKey(S) == CHOOSE k \in S : \A x \in S : BytesCompare(k, x) >= 0

\* Cursor.First: the smallest key, the wrong end for "the last record".
CursorFirst(b) == IF DOMAIN b = {} THEN Nil ELSE MinKey(DOMAIN b)

\* Cursor.Last: the largest key, nil in an empty bucket.
CursorLast(b) == IF DOMAIN b = {} THEN Nil ELSE MaxKey(DOMAIN b)

\* A cursor that starts at the first key, whatever key is sought.
CursorSeekFromFirst(b, seek) == CursorFirst(b)

\* Cursor.Seek: the first key at or after seek, nil when there is none.
CursorSeek(b, seek) ==
    LET ge == {k \in DOMAIN b : BytesCompare(k, seek) >= 0}
    IN  IF ge = {} THEN Nil ELSE MinKey(ge)

\* Cursor.Next after the cursor stood on key k.
CursorNext(b, k) ==
    LET gt == {x \in DOMAIN b : BytesCompare(x, k) > 0}
    IN  IF gt = {} THEN Nil ELSE MinKey(gt)

\* json.Marshal and json.Unmarshal; Unmarshal leaves the zero value on bytes
\* that are no document.
jsonMarshal(v) == [json |-> v]
jsonUnmarshal(doc, zero) ==
    IF DOMAIN doc = {"json"} THEN doc.json ELSE zero

NoError == ""
NoCall == [op |-> "none", args |-> << >>, result |-> << >>, err |-> NoError]

(***************************************************************************)
(* Trade-history partition                                                 *)
(***************************************************************************)
MaxRecs == 2   \* records in one StoreTradeHistory snapshot

ExchangeNames == {"binance", "huobi"}
PairNames == {"ETH-KNC", "ETH-OMG"}
\* The exchange/pair combinations snapshots carry; huobi/ETH-OMG is never stored.
StoredPairs == {<<"binance", "ETH-KNC">>, <<"binance", "ETH-OMG">>,
                <<"huobi", "ETH-KNC">>}

T1 == U64(256)
T2 == U64(256 + MAX_GET_TRADE_HISTORY)
\* common.TradeHistory: the external trade ID and the millisecond timestamp.
TradeRecords == { [ID |-> "a", Timestamp |-> T1], [ID |-> "b", Timestamp |-> T1],
                  [ID |-> "c", Timestamp |-> T2] }
ZeroTradeHistory == [ID |-> "", Timestamp |-> U64(0)]
QueryTimes == { U64(0), U64(255), U64(256), U64(255 + MAX_GET_TRADE_HISTORY),
                U64(256 + MAX_GET_TRADE_HISTORY), MaxUint64 }

\* A snapshot is common.AllTradeHistory.Data: exchange -> pair -> records in order.
Entries == { <<ep[1], ep[2], r>> : ep \in StoredPairs, r \in TradeRecords }
EntrySeqs == UNION { [1..n -> Entries] : n \in 0..MaxRecs }

RECURSIVE RecordsOf(_, _, _)
RecordsOf(es, e, p) ==
    IF Len(es) = 0 THEN << >>
    ELSE IF Head(es)[1] = e /\ Head(es)[2] = p
         THEN <<Head(es)[3]>> \o RecordsOf(Tail(es), e, p)
         ELSE RecordsOf(Tail(es), e, p)

SnapshotOf(es) ==
    LET exs == { es[i][1] : i \in 1..Len(es) }
    IN  [e \in exs |->
            [p \in { es[i][2] : i \in { j \in 1..Len(es) : es[j][1] = e } } |->
                RecordsOf(es, e, p)]]

Snapshots == { SnapshotOf(es) : es \in EntrySeqs }

\* The loop over one pair's history: Put under the big-endian timestamp.
RECURSIVE PutHistories(_, _)
PutHistories(pairBk, pairHistory) ==
    IF Len(pairHistory) = 0 THEN pairBk
    ELSE PutHistories(
            BucketPut(pairBk, uint64ToBytes(Head(pairHistory).Timestamp),
                      jsonMarshal(Head(pairHistory))),
            Tail(pairHistory))

\* StoreTradeHistory replacing the history of each pair it is given.
StoreTradeHistoryReplacing(b, data) ==
    [exchange \in DOMAIN b \cup DOMAIN data |->
        IF exchange \notin DOMAIN data THEN b[exchange]
        ELSE LET exchangeBk == CreateBucketIfNotExists(b, exchange)
                 dataHistory == data[exchange]
             IN  [pair \in DOMAIN exchangeBk \cup DOMAIN dataHistory |->
                    IF pair \notin DOMAIN dataHistory THEN exchangeBk[pair]
                    ELSE PutHistories(EmptyBucket, dataHistory[pair])]]

\* The bolt update of StoreTradeHistory, on the TRADE_HISTORY bucket b.
StoreTradeHistoryTx(b, data) ==
    [exchange \in DOMAIN b \cup DOMAIN data |->
        IF exchange \notin DOMAIN data THEN b[exchange]
        ELSE LET exchangeBk == CreateBucketIfNotExists(b, exchange)
                 dataHistory == data[exchange]
             IN  [pair \in DOMAIN exchangeBk \cup DOMAIN dataHistory |->
                    IF pair \notin DOMAIN dataHistory THEN exchangeBk[pair]
                    ELSE PutHistories(CreateBucketIfNotExists(exchangeBk, pair),
                                      dataHistory[pair])]]

StoreTradeHistory(data) ==
    /\ ret.op = "none"
    /\ trade' = StoreTradeHistoryTx(trade, data)
    /\ ret' = [op |-> "StoreTradeHistory", args |-> data, result |-> << >>,
               err |-> NoError]
    /\ UNCHANGED <<confirmed, pending>>
    /\ UNCHANGED bootVars
    /\ UNCHANGED auxVars

ErrTooBroad == "Time range is too broad, it must be smaller or equal to 3 days (miliseconds)"

\* The range check accepting one millisecond more than 3 days.
RangeTooBroadOffByOne(fromTime, toTime) ==
    U64Less(U64(MAX_GET_TRADE_HISTORY + 1), U64Sub(toTime, fromTime))

\* toTime-fromTime > MAX_GET_TRADE_HISTORY, on uint64.
RangeTooBroad(fromTime, toTime) ==
    U64Less(U64(MAX_GET_TRADE_HISTORY), U64Sub(toTime, fromTime))

\* The scan of one pair bucket: from Seek(min) while the key is <= max.
RECURSIVE ScanPair(_, _, _, _)
ScanPair(pairBk, pairKey, max, pairsHistory) ==
    IF pairKey # Nil /\ BytesCompare(pairKey, max) <= 0
    THEN ScanPair(pairBk, CursorNext(pairBk, pairKey), max,
                  Append(pairsHistory, jsonUnmarshal(pairBk[pairKey], ZeroTradeHistory)))
    ELSE pairsHistory

\* What GetTradeHistory returns on the TRADE_HISTORY bucket b. Every entry of b and
\* of an exchange bucket is a nested bucket (only CreateBucketIfNotExists writes
\* there), so both outer loops visit every entry.
GetTradeHistoryResult(b, fromTime, toTime) ==
    IF RangeTooBroad(fromTime, toTime)
    THEN [Data |-> EmptyBucket, err |-> ErrTooBroad]
    ELSE LET min == uint64ToBytes(fromTime)
             max == uint64ToBytes(toTime)
         IN  [Data |-> [k \in DOMAIN b |->
                          [key \in DOMAIN b[k] |->
                              ScanPair(b[k][key], CursorSeek(b[k][key], min), max, << >>)]],
              err |-> NoError]

GetTradeHistory(fromTime, toTime) ==
    /\ ret.op = "none"
    /\ LET res == GetTradeHistoryResult(trade, fromTime, toTime)
       IN  ret' = [op |-> "GetTradeHistory", args |-> <<fromTime, toTime>>,
                   result |-> res.Data, err |-> res.err]
    /\ UNCHANGED <<confirmed, pending, trade>>
    /\ UNCHANGED bootVars
    /\ UNCHANGED auxVars

\* GetLastIDTradeHistory reading the first key of the pair bucket.
LastHistoryFromFirst(pairBk) ==
    LET k == CursorFirst(pairBk)
    IN  IF k # Nil THEN jsonUnmarshal(pairBk[k], ZeroTradeHistory) ELSE ZeroTradeHistory

\* pairBk.Cursor().Last(), decoded when there is a key.
LastHistory(pairBk) ==
    LET k == CursorLast(pairBk)
    IN  IF k # Nil THEN jsonUnmarshal(pairBk[k], ZeroTradeHistory) ELSE ZeroTradeHistory

\* GetLastIDTradeHistory in a read-only transaction: no bucket is created.
GetLastIDTradeHistoryReadOnly(b, exchange, pair) == b

\* The bolt update of GetLastIDTradeHistory: both buckets are created when absent.
GetLastIDTradeHistoryTx(b, exchange, pair) ==
    LET exchangeBk == CreateBucketIfNotExists(b, exchange)
        pairBk == CreateBucketIfNotExists(exchangeBk, pair)
    IN  [x \in DOMAIN b \cup {exchange} |->
            IF x # exchange THEN b[x]
            ELSE [y \in DOMAIN exchangeBk \cup {pair} |->
                    IF y # pair THEN exchangeBk[y] ELSE pairBk]]

GetLastIDTradeHistory(exchange, pair) ==
    /\ ret.op = "none"
    /\ trade' = GetLastIDTradeHistoryTx(trade, exchange, pair)
    /\ LET pairBk == CreateBucketIfNotExists(CreateBucketIfNotExists(trade, exchange), pair)
       IN  ret' = [op |-> "GetLastIDTradeHistory", args |-> <<exchange, pair>>,
                   result |-> LastHistory(pairBk).ID, err |-> NoError]
    /\ UNCHANGED <<confirmed, pending>>
    /\ UNCHANGED bootVars
    /\ UNCHANGED auxVars

\* The caller takes the returned value; the next call may start.
Return ==
    /\ ret.op # "none"
    /\ ret' = NoCall
    /\ UNCHANGED <<confirmed, pending, trade>>
    /\ UNCHANGED bootVars
    /\ UNCHANGED auxVars

(***************************************************************************)
(* Specification of the trade-history partition                            *)
(***************************************************************************)
\* NewBoltStorage on a fresh file: the three buckets exist and are empty.
LedgerInit ==
    /\ confirmed = EmptyBucket
    /\ pending = EmptyBucket
    /\ trade = EmptyBucket
    /\ ret = NoCall

\* No bootstrap is running.
BootIdle ==
    /\ params = << >>
    /\ unresolvable = {}
    /\ idx = 1
    /\ opc = "idle"
    /\ spawned = {}
    /\ task = EmptyBucket
    /\ wait = 0
    /\ depositCalls = << >>
    /\ precisionCalls = << >>
    /\ built = {}
    /\ exchanges = EmptyBucket
    /\ outcome = "none"
    /\ terminated = FALSE

NoTx == [op |-> "none"]

\* No transaction is open.
ConcIdle ==
    /\ writer = NoTx
    /\ reader = NoTx
    /\ complete = EmptyBucket

\* No interface table is looked at.
EnvIdle ==
    /\ interfaces = EmptyBucket
    /\ resolved = [op |-> "none"]

\* NewHttpRunnerServer: no http.Server yet.
ServerIdle ==
    /\ http = 0
    /\ created = 0
    /\ listening = {}
    /\ blocked = {}
    /\ srvRet = [op |-> "none", err |-> NoError, returned |-> TRUE]

AuxIdle == ConcIdle /\ EnvIdle /\ ServerIdle

Init == LedgerInit /\ BootIdle /\ AuxIdle

Next ==
    \/ \E data \in Snapshots : StoreTradeHistory(data)
    \/ \E fromTime \in QueryTimes, toTime \in QueryTimes : GetTradeHistory(fromTime, toTime)
    \/ \E exchange \in ExchangeNames, pair \in PairNames : GetLastIDTradeHistory(exchange, pair)
    \/ Return

Spec == Init /\ [][Next]_vars

(***************************************************************************)
(* Claims on the trade-history partition                                   *)
(***************************************************************************)
\* The records a pair bucket holds, decoded.
StoredRecords(b, e, p) ==
    IF e \in DOMAIN b /\ p \in DOMAIN b[e]
    THEN { jsonUnmarshal(b[e][p][k], ZeroTradeHistory) : k \in DOMAIN b[e][p] }
    ELSE {}

\* The keys of a pair bucket whose record carries timestamp t.
KeysAt(b, e, p, t) ==
    IF e \in DOMAIN b /\ p \in DOMAIN b[e]
    THEN { k \in DOMAIN b[e][p] :
             jsonUnmarshal(b[e][p][k], ZeroTradeHistory).Timestamp = t }
    ELSE {}

RecordsAt(b, e, p, t) == { r \in StoredRecords(b, e, p) : r.Timestamp = t }

InWindow(r, fromTime, toTime) ==
    U64Leq(fromTime, r.Timestamp) /\ U64Leq(r.Timestamp, toTime)

\* toTime - fromTime, on uint64, is more than 3 days of milliseconds.
Over3Days(fromTime, toTime) ==
    U64Less(U64(3 * 86400000), U64Sub(toTime, fromTime))

\* C1: a GetTradeHistory(fromTime, toTime) whose range is at most 3 days returns no
\* error and, for every exchange bucket and every pair bucket of the store, exactly
\* the stored records with fromTime <= timestamp <= toTime, each once, in ascending
\* timestamp order.
C1_RangeReturnsExactlyTheWindow ==
    (ret.op = "GetTradeHistory" /\ ~Over3Days(ret.args[1], ret.args[2])) =>
        /\ ret.err = NoError
        /\ DOMAIN ret.result = DOMAIN trade
        /\ \A e \in DOMAIN trade :
            /\ DOMAIN ret.result[e] = DOMAIN trade[e]
            /\ \A p \in DOMAIN trade[e] :
                LET out == ret.result[e][p]
                    want == { r \in StoredRecords(trade, e, p) :
                                InWindow(r, ret.args[1], ret.args[2]) }
                IN  /\ { out[i] : i \in 1..Len(out) } = want
                    /\ Len(out) = Cardinality(want)
                    /\ \A i \in 1..(Len(out) - 1) :
                          U64Less(out[i].Timestamp, out[i + 1].Timestamp)

\* C1 witness: an accepted query of exactly 3 days returned a record of one pair and
\* left out a later record of the same pair, while another exchange is listed too.
C1_Witness ==
    /\ ret.op = "GetTradeHistory"
    /\ ret.err = NoError
    /\ ret.args = <<U64(255), U64(255 + MAX_GET_TRADE_HISTORY)>>
    /\ Cardinality(DOMAIN trade) = 2
    /\ \E e \in DOMAIN trade : \E p \in DOMAIN trade[e] :
          /\ Cardinality(StoredRecords(trade, e, p)) = 2
          /\ Len(ret.result[e][p]) = 1

\* C2: a GetTradeHistory whose range is more than 3 days returns the range error
\* and a result with no exchange (hence no pair and no record), and changes none of
\* the three partitions.
C2_TooBroadIsRejected ==
    [][ (ret.op = "none" /\ ret'.op = "GetTradeHistory"
           /\ Over3Days(ret'.args[1], ret'.args[2])) =>
          /\ ret'.err = ErrTooBroad
          /\ DOMAIN ret'.result = {}
          /\ trade' = trade
          /\ pending' = pending
          /\ confirmed' = confirmed ]_vars

\* C2 witness: a query was rejected although the store holds a record inside
\* [fromTime, toTime].
C2_Witness ==
    /\ ret.op = "GetTradeHistory"
    /\ ret.err = ErrTooBroad
    /\ DOMAIN ret.result = {}
    /\ \E e \in DOMAIN trade : \E p \in DOMAIN trade[e] :
          \E r \in StoredRecords(trade, e, p) : InWindow(r, ret.args[1], ret.args[2])

\* The records of snapshot data for (e, p) that carry timestamp t, in order.
WritesAt(data, e, p, t) ==
    IF e \in DOMAIN data /\ p \in DOMAIN data[e]
    THEN SelectSeq(data[e][p], LAMBDA r : r.Timestamp = t)
    ELSE << >>

\* C3: after StoreTradeHistory(data), every (exchange, pair, timestamp) that data
\* writes holds exactly one record, the last one data carries for it; every other
\* key holds what it held before.
C3_LastWriteWins ==
    [][ (ret.op = "none" /\ ret'.op = "StoreTradeHistory") =>
          \A e \in ExchangeNames, p \in PairNames, t \in {T1, T2} :
            LET writes == WritesAt(ret'.args, e, p, t)
            IN  IF Len(writes) > 0
                THEN /\ RecordsAt(trade', e, p, t) = { writes[Len(writes)] }
                     /\ Cardinality(KeysAt(trade', e, p, t)) = 1
                ELSE /\ RecordsAt(trade', e, p, t) = RecordsAt(trade, e, p, t)
                     /\ KeysAt(trade', e, p, t) = KeysAt(trade, e, p, t) ]_vars

\* C3 witness: one snapshot wrote the same key twice with different payloads, the
\* store holds the second, and another pair still holds an earlier record.
C3_Witness ==
    /\ ret.op = "StoreTradeHistory"
    /\ \E e \in DOMAIN ret.args : \E p \in DOMAIN ret.args[e] :
          /\ Len(ret.args[e][p]) = 2
          /\ ret.args[e][p][1].Timestamp = ret.args[e][p][2].Timestamp
          /\ ret.args[e][p][1].ID # ret.args[e][p][2].ID
          /\ StoredRecords(trade, e, p) = { ret.args[e][p][2] }
          /\ \E e2 \in DOMAIN trade : \E p2 \in DOMAIN trade[e2] :
                <<e2, p2>> # <<e, p>> /\ StoredRecords(trade, e2, p2) # {}

\* C6: GetLastIDTradeHistory(exchange, pair) returns no error and the ID of the
\* stored record of that pair with the greatest timestamp, or the empty ID when the
\* pair holds no record (also when the exchange or the pair was never stored).
C6_LastIDIsMaxTimestamp ==
    (ret.op = "GetLastIDTradeHistory") =>
        /\ ret.err = NoError
        /\ LET recs == StoredRecords(trade, ret.args[1], ret.args[2])
           IN  IF recs = {} THEN ret.result = ""
               ELSE \E r \in recs :
                      /\ \A q \in recs : U64Leq(q.Timestamp, r.Timestamp)
                      /\ ret.result = r.ID

\* C6 witness: the pair holds two records and the call returned the later one's ID.
C6_Witness ==
    /\ ret.op = "GetLastIDTradeHistory"
    /\ Cardinality(StoredRecords(trade, ret.args[1], ret.args[2])) = 2
    /\ ret.result = "c"

(***************************************************************************)
(* Pending and confirmed partitions                                        *)
(***************************************************************************)
\* common.ActivityID: a composite identifier; EID is a byte string.
ActivityIDs == { [Timepoint |-> U64(1), EID |-> <<97>>],
                 [Timepoint |-> U64(1), EID |-> <<98>>],
                 [Timepoint |-> U64(2), EID |-> <<97>>] }
ZeroActivityID == [Timepoint |-> U64(0), EID |-> << >>]

\* common.TXEntry: the observed transaction.
TXEntries == { [Hash |-> "0xaa", Status |-> "mined"],
               [Hash |-> "0xbb", Status |-> "failed"] }
ZeroTXEntry == [Hash |-> "", Status |-> ""]

ActivityIDWidth == 16

\* ActivityID.ToBytes: the fixed-width binary key of the confirmed partition, the
\* big-endian timepoint followed by the EID, zero-padded.
ToBytes(id) ==
    LET head == uint64ToBytes(id.Timepoint) \o id.EID
    IN  head \o [i \in 1..(ActivityIDWidth - Len(head)) |-> 0]

\* result[actID] = record on a Go map.
MapPut(m, k, v) == [x \in DOMAIN m \cup {k} |-> IF x = k THEN v ELSE m[x]]

\* The cursor loop of GetPendingIntermediateTXs over the keys left to visit; the
\* result is a map, so the order of the visit does not show in it.
RECURSIVE ScanPending(_, _, _)
ScanPending(b, keys, result) ==
    IF keys = {} THEN result
    ELSE LET k == CHOOSE x \in keys : TRUE
             actID == jsonUnmarshal(k, ZeroActivityID)
             record == jsonUnmarshal(b[k], ZeroTXEntry)
         IN  ScanPending(b, keys \ {k}, MapPut(result, actID, record))

GetPendingIntermediateTXsResult(b) == ScanPending(b, DOMAIN b, EmptyBucket)

GetPendingIntermediateTXs ==
    /\ ret.op = "none"
    /\ ret' = [op |-> "GetPendingIntermediateTXs", args |-> << >>,
               result |-> GetPendingIntermediateTXsResult(pending), err |-> NoError]
    /\ UNCHANGED <<confirmed, pending, trade>>
    /\ UNCHANGED bootVars
    /\ UNCHANGED auxVars

\* The bolt update of StorePendingIntermediateTx.
StorePendingIntermediateTxTx(b, id, data) ==
    BucketPut(b, jsonMarshal(id), jsonMarshal(data))

StorePendingIntermediateTx(id, data) ==
    /\ ret.op = "none"
    /\ pending' = StorePendingIntermediateTxTx(pending, id, data)
    /\ ret' = [op |-> "StorePendingIntermediateTx", args |-> <<id, data>>,
               result |-> << >>, err |-> NoError]
    /\ UNCHANGED <<confirmed, trade>>
    /\ UNCHANGED bootVars
    /\ UNCHANGED auxVars

\* RemovePendingIntermediateTx run in a read-only transaction: nothing is deleted.
RemovePendingReadOnly(b, id) == b

\* The bolt update of RemovePendingIntermediateTx.
RemovePendingIntermediateTxTx(b, id) == BucketDelete(b, jsonMarshal(id))

RemovePendingIntermediateTx(id) ==
    /\ ret.op = "none"
    /\ pending' = RemovePendingIntermediateTxTx(pending, id)
    /\ ret' = [op |-> "RemovePendingIntermediateTx", args |-> <<id>>,
               result |-> << >>, err |-> NoError]
    /\ UNCHANGED <<confirmed, trade>>
    /\ UNCHANGED bootVars
    /\ UNCHANGED auxVars

\* The bolt update of StoreIntermediateTx.
StoreIntermediateTxTx(b, id, data) == BucketPut(b, ToBytes(id), jsonMarshal(data))

StoreIntermediateTx(id, data) ==
    /\ ret.op = "none"
    /\ confirmed' = StoreIntermediateTxTx(confirmed, id, data)
    /\ ret' = [op |-> "StoreIntermediateTx", args |-> <<id, data>>,
               result |-> << >>, err |-> NoError]
    /\ UNCHANGED <<pending, trade>>
    /\ UNCHANGED bootVars
    /\ UNCHANGED auxVars

\* isTheSame without the loop over the bytes.
isTheSameLength(a, b) == Len(a) = Len(b)

isTheSame(a, b) ==
    /\ Len(a) = Len(b)
    /\ \A ix \in 1..Len(a) : b[ix] = a[ix]

ErrNotFound == "Can not find 2nd transaction tx for the deposit, please try later"

\* What GetIntermedatorTx returns on the INTERMEDIATE_TX bucket b.
GetIntermedatorTxResult(b, id) ==
    LET idBytes == ToBytes(id)
        k == CursorSeek(b, idBytes)
    IN  IF isTheSame(k, idBytes)
        THEN [tx |-> jsonUnmarshal(b[k], ZeroTXEntry), err |-> NoError]
        ELSE [tx |-> ZeroTXEntry, err |-> ErrNotFound]

GetIntermedatorTx(id) ==
    /\ ret.op = "none"
    /\ LET res == GetIntermedatorTxResult(confirmed, id)
       IN  ret' = [op |-> "GetIntermedatorTx", args |-> <<id>>, result |-> res.tx,
                   err |-> res.err]
    /\ UNCHANGED <<confirmed, pending, trade>>
    /\ UNCHANGED bootVars
    /\ UNCHANGED auxVars

NextTx ==
    \/ \E id \in ActivityIDs, data \in TXEntries : StorePendingIntermediateTx(id, data)
    \/ \E id \in ActivityIDs : RemovePendingIntermediateTx(id)
    \/ GetPendingIntermediateTXs
    \/ \E id \in ActivityIDs, data \in TXEntries : StoreIntermediateTx(id, data)
    \/ \E id \in ActivityIDs : GetIntermedatorTx(id)
    \/ Return

SpecTx == Init /\ [][NextTx]_vars

(***************************************************************************)
(* Claims on the pending and confirmed partitions                          *)
(***************************************************************************)
MapDelete(m, k) == [x \in DOMAIN m \ {k} |-> m[x]]

\* C4: GetPendingIntermediateTXs returns the mapping the pending operations built:
\* it is empty at first; StorePendingIntermediateTx(id, tx) sets id -> tx in it and
\* keeps every other entry; RemovePendingIntermediateTx(id) drops id from it and
\* keeps every other entry; the call itself returns that mapping with no error and
\* changes nothing; no other ledger call changes it.
C4_PendingMapping ==
    /\ GetPendingIntermediateTXsResult(pending) = EmptyBucket
    /\ [][ (ret.op = "none" /\ ret'.op # "none") =>
             LET before == GetPendingIntermediateTXsResult(pending)
                 after == GetPendingIntermediateTXsResult(pending')
             IN  CASE ret'.op = "StorePendingIntermediateTx" ->
                        after = MapPut(before, ret'.args[1], ret'.args[2])
                   [] ret'.op = "RemovePendingIntermediateTx" ->
                        after = MapDelete(before, ret'.args[1])
                   [] ret'.op = "GetPendingIntermediateTXs" ->
                        /\ ret'.result = before
                        /\ ret'.err = NoError
                        /\ pending' = pending
                   [] OTHER -> after = before ]_vars

\* C4 witness: a RemovePendingIntermediateTx returned, its id is not in the mapping,
\* and another id still has its entry.
C4_Witness ==
    /\ ret.op = "RemovePendingIntermediateTx"
    /\ ret.args[1] \notin DOMAIN GetPendingIntermediateTXsResult(pending)
    /\ \E id \in ActivityIDs, tx \in TXEntries :
          /\ id \in DOMAIN GetPendingIntermediateTXsResult(pending)
          /\ GetPendingIntermediateTXsResult(pending)[id] = tx

NotFound == [tx |-> ZeroTXEntry, err |-> ErrNotFound]

\* C5: GetIntermedatorTx(id) returns the tx of the last StoreIntermediateTx(id, tx)
\* with no error, and the not-found error for an id never stored: every id is not
\* found at first; StoreIntermediateTx(id, tx) makes id resolve to tx and changes
\* the answer for no other id; the call returns that answer and changes nothing; no
\* other ledger call changes an answer.
C5_ConfirmedLookup ==
    /\ \A id \in ActivityIDs : GetIntermedatorTxResult(confirmed, id) = NotFound
    /\ [][ (ret.op = "none" /\ ret'.op # "none") =>
             CASE ret'.op = "StoreIntermediateTx" ->
                    \A id \in ActivityIDs :
                       GetIntermedatorTxResult(confirmed', id) =
                          IF id = ret'.args[1]
                          THEN [tx |-> ret'.args[2], err |-> NoError]
                          ELSE GetIntermedatorTxResult(confirmed, id)
               [] ret'.op = "GetIntermedatorTx" ->
                    /\ [tx |-> ret'.result, err |-> ret'.err] =
                          GetIntermedatorTxResult(confirmed, ret'.args[1])
                    /\ confirmed' = confirmed
               [] OTHER ->
                    \A id \in ActivityIDs :
                       GetIntermedatorTxResult(confirmed', id) =
                          GetIntermedatorTxResult(confirmed, id) ]_vars

\* C5 witness: a lookup of an id never stored returned the not-found error while
\* the partition holds an id that sorts after it.
C5_Witness ==
    /\ ret.op = "GetIntermedatorTx"
    /\ ret.err = ErrNotFound
    /\ ret.result = ZeroTXEntry
    /\ ToBytes(ret.args[1]) \notin DOMAIN confirmed
    /\ \E k \in DOMAIN confirmed : BytesCompare(k, ToBytes(ret.args[1])) > 0

(***************************************************************************)
(* Bootstrap: NewExchangePool and its provisioning goroutines              *)
(***************************************************************************)
MaxNames == 2   \* names in KYBER_EXCHANGES

Provisioned == {"bittrex", "binance", "huobi"}
Recognized == {"stable_exchange"} \cup Provisioned
\* What KYBER_EXCHANGES may name: the four cases of the switch, a name of no case,
\* and the empty name strings.Split gives for an empty list.
RequestNames == Recognized \cup {"unknown_exchange", ""}
RequestLists ==
    { l \in UNION { [1..n -> RequestNames] : n \in 0..MaxNames } :
        \A i \in 1..Len(l), j \in 1..Len(l) : i # j => l[i] # l[j] }

Tokens == {"ETH", "KNC", "OMG"}
\* addressConfig.Exchanges: exchange -> token ID -> deposit address.
AddressConfig ==
    [e \in Provisioned |->
        CASE e = "bittrex" -> [t \in {"ETH"} |-> "0xb1"]
          [] e = "binance" -> [t \in {"ETH", "KNC"} |-> IF t = "ETH" THEN "0xn1" ELSE "0xn2"]
          [] e = "huobi" -> [t \in Tokens |->
                               IF t = "ETH" THEN "0xh1"
                               ELSE IF t = "KNC" THEN "0xh2" ELSE "0xh3"]]

\* The ID() of the adapter built for a name of the switch.
ExchangeID(name) == name

\* The exchange the loop stands on.
Current == params[idx]

NoTasks == [t \in Tokens |-> "none"]

BootInit ==
    /\ params \in RequestLists
    /\ unresolvable \in SUBSET Tokens
    /\ idx = 1
    /\ opc = "loop"
    /\ spawned = {}
    /\ task = NoTasks
    /\ wait = 0
    /\ depositCalls = << >>
    /\ precisionCalls = << >>
    /\ built = {}
    /\ exchanges = EmptyBucket
    /\ outcome = "none"
    /\ terminated = FALSE

\* The loop is over: return &ExchangePool{exchanges}, nil.
ReturnPool ==
    /\ ~terminated /\ opc = "loop" /\ idx > Len(params)
    /\ opc' = "returned"
    /\ outcome' = "pool"
    /\ UNCHANGED <<params, unresolvable, idx, spawned, task, wait, depositCalls,
                   precisionCalls, built, exchanges, terminated>>
    /\ UNCHANGED ledgerVars
    /\ UNCHANGED auxVars

\* A name of no case returned as an error instead of being passed over.
UnknownIsAnError ==
    /\ ~terminated /\ opc = "loop" /\ idx <= Len(params)
    /\ Current \notin Recognized
    /\ opc' = "returned"
    /\ outcome' = "error"
    /\ UNCHANGED <<params, unresolvable, idx, spawned, task, wait, depositCalls,
                   precisionCalls, built, exchanges, terminated>>
    /\ UNCHANGED ledgerVars
    /\ UNCHANGED auxVars

\* The switch matches no case: the loop goes on to the next name.
SkipUnknown ==
    /\ ~terminated /\ opc = "loop" /\ idx <= Len(params)
    /\ Current \notin Recognized
    /\ idx' = idx + 1
    /\ UNCHANGED <<params, unresolvable, opc, spawned, task, wait, depositCalls,
                   precisionCalls, built, exchanges, outcome, terminated>>
    /\ UNCHANGED ledgerVars
    /\ UNCHANGED auxVars

\* case "stable_exchange": NewStableEx, registered at once or its error returned.
BootStable(ok) ==
    /\ ~terminated /\ opc = "loop" /\ idx <= Len(params)
    /\ Current = "stable_exchange"
    /\ IF ok
       THEN /\ built' = built \cup {Current}
            /\ exchanges' = MapPut(exchanges, ExchangeID(Current), Current)
            /\ idx' = idx + 1
            /\ UNCHANGED <<opc, outcome>>
       ELSE /\ opc' = "returned"
            /\ outcome' = "error"
            /\ UNCHANGED <<built, exchanges, idx>>
    /\ UNCHANGED <<params, unresolvable, spawned, task, wait, depositCalls,
                   precisionCalls, terminated>>
    /\ UNCHANGED ledgerVars
    /\ UNCHANGED auxVars

\* The store's error handled like the constructor's: return nil, err.
OpenStorageFailureReturnsError(ok) ==
    /\ ~terminated /\ opc = "loop" /\ idx <= Len(params)
    /\ Current \in Provisioned
    /\ IF ok
       THEN opc' = "construct" /\ UNCHANGED outcome
       ELSE opc' = "returned" /\ outcome' = "error"
    /\ UNCHANGED <<params, unresolvable, idx, spawned, task, wait, depositCalls,
                   precisionCalls, built, exchanges, terminated>>
    /\ UNCHANGED ledgerVars
    /\ UNCHANGED auxVars

\* NewBoltStorage of the exchange; log.Panic(err) when it fails.
OpenStorage(ok) ==
    /\ ~terminated /\ opc = "loop" /\ idx <= Len(params)
    /\ Current \in Provisioned
    /\ IF ok
       THEN opc' = "construct" /\ UNCHANGED terminated
       ELSE terminated' = TRUE /\ UNCHANGED opc
    /\ UNCHANGED <<params, unresolvable, idx, spawned, task, wait, depositCalls,
                   precisionCalls, built, exchanges, outcome>>
    /\ UNCHANGED ledgerVars
    /\ UNCHANGED auxVars

\* The constructor's error handled like the store's: log.Panic(err).
ConstructFailurePanics(ok) ==
    /\ ~terminated /\ opc = "construct"
    /\ IF ok
       THEN /\ built' = built \cup {Current}
            /\ opc' = "spawn"
            /\ spawned' = {}
            /\ task' = NoTasks
            /\ wait' = 0
            /\ UNCHANGED terminated
       ELSE /\ terminated' = TRUE
            /\ UNCHANGED <<opc, built, spawned, task, wait>>
    /\ UNCHANGED <<params, unresolvable, idx, depositCalls, precisionCalls,
                   exchanges, outcome>>
    /\ UNCHANGED ledgerVars
    /\ UNCHANGED auxVars

\* exchange.NewBittrex / NewBinance / NewHuobi; return nil, err when it fails.
Construct(ok) ==
    /\ ~terminated /\ opc = "construct"
    /\ IF ok
       THEN /\ built' = built \cup {Current}
            /\ opc' = "spawn"
            /\ spawned' = {}
            /\ task' = NoTasks
            /\ wait' = 0
            /\ UNCHANGED outcome
       ELSE /\ opc' = "returned"
            /\ outcome' = "error"
            /\ UNCHANGED <<built, spawned, task, wait>>
    /\ UNCHANGED <<params, unresolvable, idx, depositCalls, precisionCalls,
                   exchanges, terminated>>
    /\ UNCHANGED ledgerVars
    /\ UNCHANGED auxVars

\* The loop body without wait.Add(1).
SpawnWithoutAdd(tokenID) ==
    /\ ~terminated /\ opc = "spawn"
    /\ tokenID \in DOMAIN AddressConfig[Current] \ spawned
    /\ spawned' = spawned \cup {tokenID}
    /\ task' = [task EXCEPT ![tokenID] = "start"]
    /\ UNCHANGED <<params, unresolvable, idx, opc, wait, depositCalls,
                   precisionCalls, built, exchanges, outcome, terminated>>
    /\ UNCHANGED ledgerVars
    /\ UNCHANGED auxVars

\* One turn of the range loop: wait.Add(1); go AsyncUpdateDepositAddress(...).
\* The order of a range over a Go map is not fixed.
Spawn(tokenID) ==
    /\ ~terminated /\ opc = "spawn"
    /\ tokenID \in DOMAIN AddressConfig[Current] \ spawned
    /\ wait' = wait + 1
    /\ spawned' = spawned \cup {tokenID}
    /\ task' = [task EXCEPT ![tokenID] = "start"]
    /\ UNCHANGED <<params, unresolvable, idx, opc, depositCalls, precisionCalls,
                   built, exchanges, outcome, terminated>>
    /\ UNCHANGED ledgerVars
    /\ UNCHANGED auxVars

\* setting.GetInternalTokenByID in the goroutine; log.Panicf when it fails.
TaskResolve(tokenID) ==
    /\ ~terminated /\ task[tokenID] = "start"
    /\ task' = [task EXCEPT ![tokenID] =
                    IF tokenID \in unresolvable THEN "panicking" ELSE "resolved"]
    /\ UNCHANGED <<params, unresolvable, idx, opc, spawned, wait, depositCalls,
                   precisionCalls, built, exchanges, outcome, terminated>>
    /\ UNCHANGED ledgerVars
    /\ UNCHANGED auxVars

\* ex.UpdateDepositAddress(token, addr) in the goroutine.
TaskUpdate(tokenID) ==
    /\ ~terminated /\ task[tokenID] = "resolved"
    /\ depositCalls' =
          Append(depositCalls, <<Current, tokenID, AddressConfig[Current][tokenID]>>)
    /\ task' = [task EXCEPT ![tokenID] = "updated"]
    /\ UNCHANGED <<params, unresolvable, idx, opc, spawned, wait, precisionCalls,
                   built, exchanges, outcome, terminated>>
    /\ UNCHANGED ledgerVars
    /\ UNCHANGED auxVars

\* The goroutine returns: the deferred wait.Done() runs.
TaskDone(tokenID) ==
    /\ ~terminated /\ task[tokenID] = "updated"
    /\ wait' = wait - 1
    /\ task' = [task EXCEPT ![tokenID] = "done"]
    /\ UNCHANGED <<params, unresolvable, idx, opc, spawned, depositCalls,
                   precisionCalls, built, exchanges, outcome, terminated>>
    /\ UNCHANGED ledgerVars
    /\ UNCHANGED auxVars

\* The goroutine panics: the deferred wait.Done() runs while the panic unwinds,
\* before the runtime ends the process.
TaskPanicDone(tokenID) ==
    /\ ~terminated /\ task[tokenID] = "panicking"
    /\ wait' = wait - 1
    /\ task' = [task EXCEPT ![tokenID] = "crashing"]
    /\ UNCHANGED <<params, unresolvable, idx, opc, spawned, depositCalls,
                   precisionCalls, built, exchanges, outcome, terminated>>
    /\ UNCHANGED ledgerVars
    /\ UNCHANGED auxVars

\* The unrecovered panic of a goroutine ends the process.
ProcessExit ==
    /\ ~terminated
    /\ \E tokenID \in Tokens : task[tokenID] = "crashing"
    /\ terminated' = TRUE
    /\ UNCHANGED <<params, unresolvable, idx, opc, spawned, task, wait, depositCalls,
                   precisionCalls, built, exchanges, outcome>>
    /\ UNCHANGED ledgerVars
    /\ UNCHANGED auxVars

\* wait.Wait() returns once every goroutine was started and the counter is zero.
WaitGroupWait ==
    /\ ~terminated /\ opc = "spawn"
    /\ spawned = DOMAIN AddressConfig[Current]
    /\ wait = 0
    /\ opc' = "precision"
    /\ UNCHANGED <<params, unresolvable, idx, spawned, task, wait, depositCalls,
                   precisionCalls, built, exchanges, outcome, terminated>>
    /\ UNCHANGED ledgerVars
    /\ UNCHANGED auxVars

\* bit.UpdatePairsPrecision() and its like.
UpdatePairsPrecision ==
    /\ ~terminated /\ opc = "precision"
    /\ precisionCalls' = Append(precisionCalls, Current)
    /\ opc' = "register"
    /\ UNCHANGED <<params, unresolvable, idx, spawned, task, wait, depositCalls,
                   built, exchanges, outcome, terminated>>
    /\ UNCHANGED ledgerVars
    /\ UNCHANGED auxVars

\* exchanges[bit.ID()] = bit, and on to the next name.
Register ==
    /\ ~terminated /\ opc = "register"
    /\ exchanges' = MapPut(exchanges, ExchangeID(Current), Current)
    /\ idx' = idx + 1
    /\ opc' = "loop"
    /\ UNCHANGED <<params, unresolvable, spawned, task, wait, depositCalls,
                   precisionCalls, built, outcome, terminated>>
    /\ UNCHANGED ledgerVars
    /\ UNCHANGED auxVars

NextBoot ==
    \/ ReturnPool
    \/ SkipUnknown
    \/ \E ok \in BOOLEAN : BootStable(ok)
    \/ \E ok \in BOOLEAN : OpenStorage(ok)
    \/ \E ok \in BOOLEAN : Construct(ok)
    \/ \E tokenID \in Tokens : Spawn(tokenID)
    \/ \E tokenID \in Tokens : TaskResolve(tokenID)
    \/ \E tokenID \in Tokens : TaskUpdate(tokenID)
    \/ \E tokenID \in Tokens : TaskDone(tokenID)
    \/ \E tokenID \in Tokens : TaskPanicDone(tokenID)
    \/ ProcessExit
    \/ WaitGroupWait
    \/ UpdatePairsPrecision
    \/ Register

InitBoot == LedgerInit /\ BootInit /\ AuxIdle

SpecBoot == InitBoot /\ [][NextBoot]_vars

(***************************************************************************)
(* Claims on the bootstrap                                                 *)
(***************************************************************************)
Range(q) == { q[i] : i \in 1..Len(q) }

\* The ex.UpdateDepositAddress calls made on the adapter of exchange e, in order.
CallsFor(e) == SelectSeq(depositCalls, LAMBDA c : c[1] = e)

\* wait.Wait() of exchange e has returned.
PastJoin(e) ==
    \/ e \in Range(precisionCalls)
    \/ opc = "precision" /\ Current = e

\* C7: once wait.Wait() of an exchange whose configured tokens all resolve has
\* returned, the adapter has received exactly one UpdateDepositAddress call per
\* configured (token, address) pair and no other call, whatever the order in which
\* the goroutines were started and ran.
C7_OneUpdatePerPair ==
    \A e \in Provisioned :
        (PastJoin(e) /\ DOMAIN AddressConfig[e] \cap unresolvable = {}) =>
            /\ Len(CallsFor(e)) = Cardinality(DOMAIN AddressConfig[e])
            /\ \A t \in DOMAIN AddressConfig[e] :
                  Cardinality({ i \in 1..Len(CallsFor(e)) :
                                  CallsFor(e)[i] = <<e, t, AddressConfig[e][t]>> }) = 1

\* C7 witness: the join of huobi's three tasks has returned, the three calls were
\* made, and the task started last finished first.
C7_Witness ==
    /\ opc = "precision"
    /\ Current = "huobi"
    /\ unresolvable = {}
    /\ Len(CallsFor("huobi")) = 3
    /\ CallsFor("huobi")[1][2] = "OMG"
    /\ CallsFor("huobi")[3][2] = "ETH"

\* C8: the orchestrator is past the join of an exchange (refreshing the pair
\* precision, registering, or on to the next name or returned) only when every
\* goroutine started for that exchange has finished its deposit-address update and
\* returned; none is still running.
C8_RefreshOnlyAfterEveryTask ==
    /\ opc \in {"precision", "register"} => \A t \in spawned : task[t] = "done"
    /\ opc \in {"loop", "construct", "returned"} =>
          \A t \in Tokens : task[t] \in {"none", "done"}

\* C9: while a goroutine whose token failed to resolve has not yet ended the
\* process, the orchestrator is still inside the provisioning of that exchange: no
\* pair-precision refresh and no registration of it has run, no later name is being
\* handled, and UpdateDepositAddress was not called for that token.
C9_FatalBeforeAnyFurtherStep ==
    \A t \in Tokens :
        task[t] \in {"panicking", "crashing"} =>
            /\ opc = "spawn"
            /\ Current \notin Range(precisionCalls)
            /\ ExchangeID(Current) \notin DOMAIN exchanges
            /\ \A i \in 1..Len(depositCalls) :
                  ~(depositCalls[i][1] = Current /\ depositCalls[i][2] = t)

RecognizedIn(l) == Range(l) \cap Recognized

\* C10: a pool is returned only with exactly the recognized names of the list
\* registered, each under its own ID, and with adapter calls made for recognized
\* names only; an error is returned only at a recognized name, never at a name of
\* no case.
C10_RegistersRecognizedNames ==
    /\ outcome = "pool" =>
          /\ DOMAIN exchanges = { ExchangeID(n) : n \in RecognizedIn(params) }
          /\ \A n \in RecognizedIn(params) : exchanges[ExchangeID(n)] = n
          /\ built = RecognizedIn(params)
          /\ Range(precisionCalls) = RecognizedIn(params) \cap Provisioned
          /\ \A i \in 1..Len(depositCalls) :
                depositCalls[i][1] \in RecognizedIn(params) \cap Provisioned
    /\ outcome = "error" => idx <= Len(params) /\ params[idx] \in Recognized

\* C10 witness: the list binance, unknown_exchange returned a pool whose only entry
\* is binance.
C10_Witness ==
    /\ outcome = "pool"
    /\ params = <<"binance", "unknown_exchange">>
    /\ DOMAIN exchanges = {"binance"}
    /\ exchanges["binance"] = "binance"

\* The orchestrator is about to call an adapter constructor.
AtConstructor ==
    \/ opc = "construct"
    \/ opc = "loop" /\ idx <= Len(params) /\ params[idx] = "stable_exchange"

\* No goroutine of an earlier exchange is unwinding a panic.
NoneCrashing == \A t \in DOMAIN task : task[t] # "crashing"

\* The names at position i of the list and after it.
NamesFrom(i) == { params[j] : j \in i..Len(params) }

\* Nothing was run for exchange e: no deposit call, no refresh, no registration.
Untouched(e) ==
    /\ Len(CallsFor(e)) = 0
    /\ e \notin Range(precisionCalls)
    /\ e \notin DOMAIN exchanges

\* C11: when an adapter constructor fails, NewExchangePool returns the error and no
\* pool, even with earlier exchanges built; the failure does not end the process;
\* nothing (deposit call, precision refresh, registration) is or will be run for the
\* failing exchange or any exchange after it in the list.
C11_ConstructorFailureReturnsError ==
    /\ [][ (AtConstructor /\ NoneCrashing /\ params[idx] \notin built'
              /\ <<opc, idx, outcome, terminated>>' # <<opc, idx, outcome, terminated>>)
            => (opc' = "returned" /\ outcome' = "error" /\ ~terminated') ]_vars
    /\ [][ (outcome # "error" /\ outcome' = "error")
            => /\ AtConstructor /\ idx' = idx
               /\ terminated' = terminated
               /\ exchanges' = exchanges
               /\ \A e \in NamesFrom(idx) : e \notin built' /\ Untouched(e)' ]_vars
    /\ [][ outcome = "error"
            => UNCHANGED <<outcome, opc, idx, built, depositCalls, precisionCalls,
                           exchanges>> ]_vars

\* C11 witness: the second constructor failed after the first exchange was
\* provisioned, refreshed and registered; the error was returned, the process runs.
C11_Witness ==
    /\ outcome = "error" /\ opc = "returned" /\ ~terminated
    /\ idx = 2 /\ Len(params) = 2
    /\ params[1] \in Provisioned /\ params[1] \in DOMAIN exchanges
    /\ Len(CallsFor(params[1])) > 0
    /\ params[2] \in Provisioned /\ Untouched(params[2])

\* The orchestrator is about to open the store of a provisioned exchange.
AtStoreOpen == opc = "loop" /\ idx <= Len(params) /\ params[idx] \in Provisioned

\* C12: when NewBoltStorage fails the process ends: no pool and no error is
\* returned, the adapter of that exchange is never constructed, given a deposit
\* address, refreshed or registered, and nothing happens afterwards; a constructor
\* failure is the other outcome, an error returned by a running process.
C12_StoreOpenFailureIsFatal ==
    /\ [][ (AtStoreOpen /\ NoneCrashing /\ opc' # "construct"
              /\ <<opc, idx, outcome, terminated>>' # <<opc, idx, outcome, terminated>>)
            => /\ terminated' /\ outcome' = "none" /\ opc' = "loop" /\ idx' = idx
               /\ exchanges' = exchanges
               /\ params[idx] \notin built' /\ Untouched(params[idx])' ]_vars
    /\ [][ (AtStoreOpen /\ opc' = "construct") => (~terminated' /\ outcome' = "none") ]_vars
    /\ [][ terminated
            => UNCHANGED <<outcome, opc, idx, built, depositCalls, precisionCalls,
                           exchanges, task, spawned>> ]_vars
    /\ [][ (outcome # "error" /\ outcome' = "error") => terminated' = terminated ]_vars

\* C12 witness: the store of the second exchange failed to open after the first
\* exchange was registered: the process has ended inside the loop with nothing
\* returned, no goroutine was panicking, and the second adapter was never built.
C12_Witness ==
    /\ terminated /\ opc = "loop" /\ outcome = "none" /\ NoneCrashing
    /\ idx = 2 /\ Len(params) = 2
    /\ params[1] \in Provisioned /\ params[1] \in DOMAIN exchanges
    /\ params[2] \in Provisioned /\ params[2] \notin built /\ Untouched(params[2])

(***************************************************************************)
(* The trade-history methods as bolt transactions that overlap in time.    *)
(* db.Update holds bolt's writer lock from Begin to Commit and works on a  *)
(* private copy of the pages; db.View reads the root that was committed    *)
(* when it began.  BoltStorage.mu is never locked.                         *)
(***************************************************************************)

\* Snapshots of binance with records a (at T1) and c (at T2) of ETH-KNC and record
\* a of ETH-OMG, in the order the loops of StoreTradeHistory reach them.
ConcEntries == { x \in Entries : /\ x[1] = "binance"
                                 /\ \/ x[2] = "ETH-KNC" /\ x[3].ID \in {"a", "c"}
                                    \/ x[2] = "ETH-OMG" /\ x[3].ID = "a" }
ConcEntrySeqs == UNION { [1..n -> ConcEntries] : n \in 1..MaxRecs }

\* The range loops finish one pair before the next and one exchange before the
\* next; the order of the map keys is not fixed.
Grouped(es) ==
    \A i, j, k \in 1..Len(es) :
        (i < j /\ j < k) =>
            /\ (es[i][1] = es[k][1] => es[j][1] = es[i][1])
            /\ (<<es[i][1], es[i][2]>> = <<es[k][1], es[k][2]>>
                    => <<es[j][1], es[j][2]>> = <<es[i][1], es[i][2]>>)

ConcEntry(id) == CHOOSE x \in ConcEntries : x[2] = "ETH-KNC" /\ x[3].ID = id

\* [0, T1] holds a; [T1, T2] is exactly 3 days and holds a and c; [0, T2] is refused.
ConcQueries == { <<U64(0), T1>>, <<T1, T2>>, <<U64(0), T2>> }

\* db.Update of StoreTradeHistory begins: the writer lock is taken.
BeginStoreTradeHistory(es) ==
    /\ writer = NoTx
    /\ Grouped(es)
    /\ writer' = [op |-> "StoreTradeHistory", data |-> SnapshotOf(es), todo |-> es,
                  work |-> trade, base |-> complete]
    /\ UNCHANGED <<trade, reader, complete>>
    /\ UNCHANGED <<confirmed, pending, ret>>
    /\ UNCHANGED <<bootVars, envVars, serverVars>>

\* Every Put committed by a transaction of its own.
PutAutocommitted(committed, work) == work

\* What the file holds after a Put inside the open db.Update: the committed root.
PutInsideUpdate(committed, work) == committed

\* One pass of the innermost loop: buckets created when absent, one Put.
PutHistory ==
    /\ writer.op = "StoreTradeHistory" /\ Len(writer.todo) > 0
    /\ LET work == StoreTradeHistoryTx(writer.work, SnapshotOf(<<Head(writer.todo)>>))
       IN  /\ writer' = [writer EXCEPT !.todo = Tail(@), !.work = work]
           /\ trade' = PutInsideUpdate(trade, work)
    /\ UNCHANGED <<reader, complete>>
    /\ UNCHANGED <<confirmed, pending, ret>>
    /\ UNCHANGED <<bootVars, envVars, serverVars>>

\* The closure returns nil: db.Update commits and releases the writer lock.
CommitStoreTradeHistory ==
    /\ writer.op = "StoreTradeHistory" /\ Len(writer.todo) = 0
    /\ trade' = writer.work
    /\ complete' = writer.work
    /\ writer' = [op |-> "returned", call |-> "StoreTradeHistory", data |-> writer.data,
                  base |-> writer.base, result |-> << >>, err |-> NoError]
    /\ UNCHANGED reader
    /\ UNCHANGED <<confirmed, pending, ret>>
    /\ UNCHANGED <<bootVars, envVars, serverVars>>

\* db.Update of GetLastIDTradeHistory begins: the writer lock is taken, the buckets
\* are created in the private copy and the last key is read.
BeginGetLastIDTradeHistory(exchange, pair) ==
    /\ writer = NoTx
    /\ LET work == GetLastIDTradeHistoryTx(trade, exchange, pair)
       IN  writer' = [op |-> "GetLastIDTradeHistory", args |-> <<exchange, pair>>,
                      work |-> work, base |-> complete,
                      result |-> LastHistory(work[exchange][pair]).ID]
    /\ UNCHANGED <<trade, reader, complete>>
    /\ UNCHANGED <<confirmed, pending, ret>>
    /\ UNCHANGED <<bootVars, envVars, serverVars>>

CommitGetLastIDTradeHistory ==
    /\ writer.op = "GetLastIDTradeHistory"
    /\ trade' = writer.work
    /\ complete' = writer.work
    /\ writer' = [op |-> "returned", call |-> "GetLastIDTradeHistory",
                  data |-> writer.args, base |-> writer.base,
                  result |-> writer.result, err |-> NoError]
    /\ UNCHANGED reader
    /\ UNCHANGED <<confirmed, pending, ret>>
    /\ UNCHANGED <<bootVars, envVars, serverVars>>

\* The caller of the writing method takes its result.
WriterReturn ==
    /\ writer.op = "returned"
    /\ writer' = NoTx
    /\ UNCHANGED <<trade, reader, complete>>
    /\ UNCHANGED <<confirmed, pending, ret>>
    /\ UNCHANGED <<bootVars, envVars, serverVars>>

\* GetTradeHistory refuses the range before any transaction.
GetTradeHistoryRefused(fromTime, toTime) ==
    /\ reader = NoTx
    /\ RangeTooBroad(fromTime, toTime)
    /\ reader' = [op |-> "returned", args |-> <<fromTime, toTime>>, base |-> complete,
                  midway |-> FALSE, result |-> EmptyBucket, err |-> ErrTooBroad]
    /\ UNCHANGED <<trade, writer, complete>>
    /\ UNCHANGED <<confirmed, pending, ret>>
    /\ UNCHANGED <<bootVars, envVars, serverVars>>

\* db.View of GetTradeHistory begins: it reads the root committed at this moment.
\* midway notes that a StoreTradeHistory had then made some of its Puts, not all.
BeginGetTradeHistory(fromTime, toTime) ==
    /\ reader = NoTx
    /\ ~RangeTooBroad(fromTime, toTime)
    /\ reader' = [op |-> "GetTradeHistory", args |-> <<fromTime, toTime>>,
                  snap |-> trade, base |-> complete,
                  midway |-> (/\ writer.op = "StoreTradeHistory"
                              /\ Len(writer.todo) > 0
                              /\ writer.work # writer.base)]
    /\ UNCHANGED <<trade, writer, complete>>
    /\ UNCHANGED <<confirmed, pending, ret>>
    /\ UNCHANGED <<bootVars, envVars, serverVars>>

\* The scans have run over the transaction's root; db.View ends.
EndGetTradeHistory ==
    /\ reader.op = "GetTradeHistory"
    /\ LET res == GetTradeHistoryResult(reader.snap, reader.args[1], reader.args[2])
       IN  reader' = [op |-> "returned", args |-> reader.args, base |-> reader.base,
                      midway |-> reader.midway, result |-> res.Data, err |-> res.err]
    /\ UNCHANGED <<trade, writer, complete>>
    /\ UNCHANGED <<confirmed, pending, ret>>
    /\ UNCHANGED <<bootVars, envVars, serverVars>>

\* The caller of GetTradeHistory takes its result.
ReaderReturn ==
    /\ reader.op = "returned"
    /\ reader' = NoTx
    /\ UNCHANGED <<trade, writer, complete>>
    /\ UNCHANGED <<confirmed, pending, ret>>
    /\ UNCHANGED <<bootVars, envVars, serverVars>>

NextConc ==
    \/ \E es \in ConcEntrySeqs : BeginStoreTradeHistory(es)
    \/ PutHistory
    \/ CommitStoreTradeHistory
    \/ \E pair \in PairNames : BeginGetLastIDTradeHistory("binance", pair)
    \/ CommitGetLastIDTradeHistory
    \/ WriterReturn
    \/ \E q \in ConcQueries : GetTradeHistoryRefused(q[1], q[2])
    \/ \E q \in ConcQueries : BeginGetTradeHistory(q[1], q[2])
    \/ EndGetTradeHistory
    \/ ReaderReturn

SpecConc == Init /\ [][NextConc]_vars

\* C13: every ledger operation runs in one transaction, with no lock but the
\* engine's writer lock: the file never holds part of a snapshot, a GetTradeHistory
\* that overlaps a StoreTradeHistory of several records returns what the store held
\* before that call or after it (none or all of its records), GetLastIDTradeHistory
\* reads such a state too, and the Puts of one call add up to the whole snapshot.
C13_NoPartialSnapshotObserved ==
    /\ trade = complete
    /\ (reader.op = "returned" /\ reader.err = NoError) =>
          reader.result = GetTradeHistoryResult(reader.base, reader.args[1],
                                                reader.args[2]).Data
    /\ (writer.op = "returned" /\ writer.call = "GetLastIDTradeHistory") =>
          writer.result =
            LastHistory(GetLastIDTradeHistoryTx(writer.base, writer.data[1],
                                                writer.data[2])[writer.data[1]][writer.data[2]]).ID
    /\ (writer.op = "returned" /\ writer.call = "StoreTradeHistory") =>
          complete = StoreTradeHistoryTx(writer.base, writer.data)

\* C13 witness: GetTradeHistory over [T1, T2] began when a StoreTradeHistory of the
\* two records a and c had made one of its two Puts, and returned neither record.
C13_Witness ==
    /\ writer.op = "StoreTradeHistory" /\ Len(writer.todo) = 1
    /\ writer.data = SnapshotOf(<<ConcEntry("a"), ConcEntry("c")>>)
    /\ writer.work # trade
    /\ reader.op = "returned" /\ reader.midway
    /\ reader.args = <<T1, T2>> /\ reader.err = NoError
    /\ reader.result = EmptyBucket

(***************************************************************************)
(* The four writing methods when the engine reports an error: a Put or a   *)
(* Delete that returns an error, or a Commit that fails.  db.Update rolls  *)
(* the transaction back when its closure returns an error or when Commit   *)
(* fails, and returns that error to its caller.                            *)
(***************************************************************************)

FaultKinds == {"none", "call", "commit"}
ErrCall == "engine: Put or Delete failed"
ErrCommit == "engine: Commit failed"

\* The error of a Put or Delete under the fault.
CallErr(fault) == IF fault = "call" THEN ErrCall ELSE NoError

\* db.Update: before is the bucket when the transaction began, after the bucket as
\* the closure left it, fnErr what the closure returned.
DbUpdate(before, after, fnErr, fault) ==
    IF fnErr # NoError THEN [b |-> before, err |-> fnErr]
    ELSE IF fault = "commit" THEN [b |-> before, err |-> ErrCommit]
    ELSE [b |-> after, err |-> NoError]

FaultIDs == { id \in ActivityIDs : id.Timepoint = U64(2) }
FaultEntrySeqs == { es \in EntrySeqs :
                      \A i \in 1..Len(es) : es[i][1] = "binance" /\ es[i][2] = "ETH-KNC" }

\* err = self.db.Update(...), the closure returning what b.Put returned.
StorePendingIntermediateTxFaulty(id, data, fault) ==
    /\ ret.op = "none"
    /\ LET putErr == CallErr(fault)
           after == IF putErr = NoError
                    THEN StorePendingIntermediateTxTx(pending, id, data) ELSE pending
           upd == DbUpdate(pending, after, putErr, fault)
       IN  /\ pending' = upd.b
           /\ ret' = [op |-> "StorePendingIntermediateTx", args |-> <<id, data>>,
                      result |-> << >>, err |-> upd.err, fault |-> fault]
    /\ UNCHANGED <<confirmed, trade>>
    /\ UNCHANGED bootVars
    /\ UNCHANGED auxVars

\* self.db.Update(...) with its result dropped; the closure's err is its own
\* variable, so the method returns its first err, which nothing assigns.
RemovePendingIntermediateTxFaulty(id, fault) ==
    /\ ret.op = "none"
    /\ LET delErr == CallErr(fault)
           after == IF delErr = NoError
                    THEN RemovePendingIntermediateTxTx(pending, id) ELSE pending
           upd == DbUpdate(pending, after, delErr, fault)
       IN  /\ pending' = upd.b
           /\ ret' = [op |-> "RemovePendingIntermediateTx", args |-> <<id>>,
                      result |-> << >>, err |-> NoError, fault |-> fault]
    /\ UNCHANGED <<confirmed, trade>>
    /\ UNCHANGED bootVars
    /\ UNCHANGED auxVars

\* self.db.Update(...) with its result dropped; the method's err is assigned by
\* json.Marshal only, which does not fail on a TXEntry.
StoreIntermediateTxFaulty(id, data, fault) ==
    /\ ret.op = "none"
    /\ LET putErr == CallErr(fault)
           after == IF putErr = NoError
                    THEN StoreIntermediateTxTx(confirmed, id, data) ELSE confirmed
           upd == DbUpdate(confirmed, after, putErr, fault)
       IN  /\ confirmed' = upd.b
           /\ ret' = [op |-> "StoreIntermediateTx", args |-> <<id, data>>,
                      result |-> << >>, err |-> NoError, fault |-> fault]
    /\ UNCHANGED <<pending, trade>>
    /\ UNCHANGED bootVars
    /\ UNCHANGED auxVars

\* The snapshot with every history emptied: what is left of the loops when every
\* pairBk.Put fails, since the result of Put is not looked at.
WithoutRecords(data) == [e \in DOMAIN data |-> [p \in DOMAIN data[e] |-> << >>]]

\* err = self.db.Update(...); the closure returns the method's err, nil at that
\* time, whatever Put returned.
StoreTradeHistoryFaulty(data, fault) ==
    /\ ret.op = "none"
    /\ LET after == IF fault = "call"
                    THEN StoreTradeHistoryTx(trade, WithoutRecords(data))
                    ELSE StoreTradeHistoryTx(trade, data)
           upd == DbUpdate(trade, after, NoError, fault)
       IN  /\ trade' = upd.b
           /\ ret' = [op |-> "StoreTradeHistory", args |-> data, result |-> << >>,
                      err |-> upd.err, fault |-> fault]
    /\ UNCHANGED <<confirmed, pending>>
    /\ UNCHANGED bootVars
    /\ UNCHANGED auxVars

NextFault ==
    \/ \E id \in FaultIDs, data \in TXEntries, fault \in FaultKinds :
          StorePendingIntermediateTxFaulty(id, data, fault)
    \/ \E id \in FaultIDs, fault \in FaultKinds : RemovePendingIntermediateTxFaulty(id, fault)
    \/ \E id \in FaultIDs, data \in TXEntries, fault \in FaultKinds :
          StoreIntermediateTxFaulty(id, data, fault)
    \/ \E es \in FaultEntrySeqs, fault \in FaultKinds :
          StoreTradeHistoryFaulty(SnapshotOf(es), fault)
    \/ Return

SpecFault == Init /\ [][NextFault]_vars

\* C14: an error the engine reports inside a writing method (a failed Put or Delete,
\* a failed Commit) is returned by the method: StorePendingIntermediateTx,
\* RemovePendingIntermediateTx, StoreIntermediateTx and StoreTradeHistory never
\* return nil when the engine reported an error.
C14_EngineErrorIsReturned ==
    (ret.op # "none" /\ ret.fault # "none") => ret.err # NoError

(***************************************************************************)
(* The whole ledger: the store file with its three top-level buckets, all  *)
(* eight methods, and NewBoltStorage run again on the file (after a        *)
(* restart of the process: BoltStorage has no Close).                      *)
(***************************************************************************)

INTERMEDIATE_TX == "intermediate_tx"
PENDING_INTERMEDIATE_TX == "pending_intermediate_tx"
TRADE_HISTORY == "trade_history"

\* The top-level buckets of the open store file.
File == [n \in {INTERMEDIATE_TX, PENDING_INTERMEDIATE_TX, TRADE_HISTORY} |->
            IF n = INTERMEDIATE_TX THEN confirmed
            ELSE IF n = PENDING_INTERMEDIATE_TX THEN pending
            ELSE trade]

ErrBucketExists == "bucket already exists"

\* tx.CreateBucket emptying a bucket that exists.
TxCreateBucketAfresh(db, name) ==
    [db |-> MapPut(db, name, EmptyBucket), err |-> NoError]

\* tx.CreateBucket: an error, and nothing done, when the bucket exists.
TxCreateBucket(db, name) ==
    IF name \in DOMAIN db
    THEN [db |-> db, err |-> ErrBucketExists]
    ELSE [db |-> MapPut(db, name, EmptyBucket), err |-> NoError]

\* The db.Update of NewBoltStorage on the top-level buckets db: the results of the
\* two CreateBucket calls are dropped, the closure returns nil.
NewBoltStorageTx(db) ==
    LET d1 == TxCreateBucket(db, INTERMEDIATE_TX).db
        d2 == TxCreateBucket(d1, PENDING_INTERMEDIATE_TX).db
    IN  MapPut(d2, TRADE_HISTORY, CreateBucketIfNotExists(d2, TRADE_HISTORY))

\* NewBoltStorage on the store file as it is; bolt.Open succeeds.
NewBoltStorage ==
    /\ ret.op = "none"
    /\ LET db == NewBoltStorageTx(File)
       IN  /\ confirmed' = db[INTERMEDIATE_TX]
           /\ pending' = db[PENDING_INTERMEDIATE_TX]
           /\ trade' = db[TRADE_HISTORY]
           /\ ret' = [op |-> "NewBoltStorage", args |-> << >>,
                      result |-> DOMAIN db, err |-> NoError]
    /\ UNCHANGED bootVars
    /\ UNCHANGED auxVars

LedgerIDs == { id \in ActivityIDs : id.Timepoint = U64(2) }
LedgerTXs == { data \in TXEntries : data.Status = "mined" }

NextLedger ==
    \/ \E data \in Snapshots : StoreTradeHistory(data)
    \/ \E q \in ConcQueries : GetTradeHistory(q[1], q[2])
    \/ \E exchange \in ExchangeNames, pair \in PairNames :
          GetLastIDTradeHistory(exchange, pair)
    \/ \E id \in LedgerIDs, data \in LedgerTXs : StorePendingIntermediateTx(id, data)
    \/ \E id \in LedgerIDs : RemovePendingIntermediateTx(id)
    \/ GetPendingIntermediateTXs
    \/ \E id \in LedgerIDs, data \in LedgerTXs : StoreIntermediateTx(id, data)
    \/ \E id \in LedgerIDs : GetIntermedatorTx(id)
    \/ NewBoltStorage
    \/ Return

SpecLedger == Init /\ [][NextLedger]_vars

\* C15: opening is idempotent. On a new file NewBoltStorage makes the three empty
\* partitions; on a file that holds them it returns no error, the file holds the
\* same three partitions and no other, and every entry of the three is as it was.
C15_ReopenKeepsTheLedger ==
    /\ NewBoltStorageTx(EmptyBucket) =
          [n \in {INTERMEDIATE_TX, PENDING_INTERMEDIATE_TX, TRADE_HISTORY} |-> EmptyBucket]
    /\ [][ (ret.op = "none" /\ ret'.op = "NewBoltStorage")
            => /\ ret'.err = NoError
               /\ ret'.result = {INTERMEDIATE_TX, PENDING_INTERMEDIATE_TX, TRADE_HISTORY}
               /\ confirmed' = confirmed /\ pending' = pending /\ trade' = trade
               /\ File' = File ]_vars

\* C15 witness: NewBoltStorage has returned on a file holding a confirmed entry, a
\* pending entry and a trade-history record.
C15_Witness ==
    /\ ret.op = "NewBoltStorage"
    /\ DOMAIN confirmed # {} /\ DOMAIN pending # {}
    /\ StoredRecords(trade, "binance", "ETH-KNC") # {}

\* The pair bucket of exchange e and pair p in b, Nil when there is none.
PairBucket(b, e, p) == IF e \in DOMAIN b /\ p \in DOMAIN b[e] THEN b[e][p] ELSE Nil

\* Every pair bucket of b is in c with the same entries.
SameRecords(b, c) ==
    \A e \in DOMAIN b : /\ e \in DOMAIN c
                         /\ \A p \in DOMAIN b[e] : p \in DOMAIN c[e] /\ c[e][p] = b[e][p]

\* The ends of the ranges asked after GetLastIDTradeHistory.
ListingTimes == { U64(0), T1, T2, MaxUint64 }

\* C17: GetLastIDTradeHistory(exchange, pair) changes the store only by creating the
\* exchange bucket and the pair bucket when absent: every record is as it was, no
\* record is added, pending and confirmed are untouched; from then on
\* GetTradeHistory over any accepted range lists that exchange and pair, with an
\* empty sequence when no record was stored for the pair.
C17_LastIDOnlyCreatesBuckets ==
    [][ (ret.op = "none" /\ ret'.op = "GetLastIDTradeHistory")
        => LET e == ret'.args[1]
               p == ret'.args[2]
           IN  /\ pending' = pending /\ confirmed' = confirmed
               /\ SameRecords(trade, trade')
               /\ DOMAIN trade' = DOMAIN trade \cup {e}
               /\ \A x \in DOMAIN trade' :
                     DOMAIN trade'[x] = (IF x \in DOMAIN trade THEN DOMAIN trade[x] ELSE {})
                                           \cup (IF x = e THEN {p} ELSE {})
               /\ PairBucket(trade, e, p) = Nil => trade'[e][p] = EmptyBucket
               /\ \A fromTime, toTime \in ListingTimes :
                     ~RangeTooBroad(fromTime, toTime) =>
                        LET res == GetTradeHistoryResult(trade', fromTime, toTime)
                        IN  /\ res.err = NoError
                            /\ e \in DOMAIN res.Data /\ p \in DOMAIN res.Data[e]
                            /\ PairBucket(trade, e, p) \in {Nil, EmptyBucket} =>
                                  res.Data[e][p] = << >> ]_vars

\* C17 witness: GetLastIDTradeHistory("huobi", "ETH-OMG") has returned on a store
\* with entries in all three partitions and no huobi record: it found no ID and
\* left the two buckets, empty.
C17_Witness ==
    /\ ret.op = "GetLastIDTradeHistory" /\ ret.args = <<"huobi", "ETH-OMG">>
    /\ ret.result = ""
    /\ DOMAIN trade = {"binance", "huobi"} /\ DOMAIN trade["huobi"] = {"ETH-OMG"}
    /\ trade["huobi"]["ETH-OMG"] = EmptyBucket
    /\ StoredRecords(trade, "binance", "ETH-KNC") # {}
    /\ DOMAIN confirmed # {} /\ DOMAIN pending # {}

\* C18: trade-history records are never deleted: whatever ledger operation runs, an
\* (exchange, pair, timestamp) key of the store is a key of the store afterwards.
C18_TradeKeysOnlyGrow ==
    [][ \A e \in DOMAIN trade :
          /\ e \in DOMAIN trade'
          /\ \A p \in DOMAIN trade[e] :
                /\ p \in DOMAIN trade'[e]
                /\ DOMAIN trade[e][p] \subseteq DOMAIN trade'[e][p] ]_vars

\* C18 witness: StoreTradeHistory has written record a (T1) to binance/ETH-KNC, which
\* held record c (T2) from an earlier call, and both keys are there.
C18_Witness ==
    /\ ret.op = "StoreTradeHistory"
    /\ ret.args = SnapshotOf(<<ConcEntry("a")>>)
    /\ DOMAIN PairBucket(trade, "binance", "ETH-KNC") = {uint64ToBytes(T1), uint64ToBytes(T2)}

(***************************************************************************)
(* The environment resolvers.  The three tables are package variables set  *)
(* up elsewhere in the repository; each holds an entry under the           *)
(* development key.                                                        *)
(***************************************************************************)

DEV_MODE == "dev"
OtherModes == {"staging", "mainnet"}
\* The tags a caller may pass: the keys, one in no table, and the empty tag.
EnvTags == {DEV_MODE} \cup OtherModes \cup {"ropsten", ""}

\* The Interface an exchange's table holds under a key.
InterfaceOf(exchange, mode) == [exchange |-> exchange, env |-> mode]
ZeroInterface == [exchange |-> "", env |-> ""]

\* The tables one exchange may have: the development entry and any of the others.
TablesOf(exchange) ==
    { [mode \in {DEV_MODE} \cup modes |-> InterfaceOf(exchange, mode)] :
        modes \in SUBSET OtherModes }

EnvInit ==
    /\ interfaces \in { t \in [Provisioned -> UNION { TablesOf(e) : e \in Provisioned }] :
                           \A e \in Provisioned : t[e] \in TablesOf(e) }
    /\ resolved = [op |-> "none"]

\* m[k] on a Go map: the zero value when k has no entry.
MapIndex(m, k) == IF k \in DOMAIN m THEN m[k] ELSE ZeroInterface

\* The lookup without the fallback.
EnvInterfaceNoFallback(table, kyberENV) == MapIndex(table, kyberENV)

\* The body the three resolvers share: the entry of kyberENV, else that of DEV_MODE.
EnvInterface(table, kyberENV) ==
    LET ok == kyberENV \in DOMAIN table
    IN  IF ~ok THEN MapIndex(table, DEV_MODE) ELSE MapIndex(table, kyberENV)

getBittrexInterface(kyberENV) ==
    /\ resolved' = [op |-> "getBittrexInterface", exchange |-> "bittrex",
                    args |-> kyberENV,
                    result |-> EnvInterface(interfaces["bittrex"], kyberENV)]
    /\ UNCHANGED interfaces
    /\ UNCHANGED <<ledgerVars, bootVars, concVars, serverVars>>

getBinanceInterface(kyberENV) ==
    /\ resolved' = [op |-> "getBinanceInterface", exchange |-> "binance",
                    args |-> kyberENV,
                    result |-> EnvInterface(interfaces["binance"], kyberENV)]
    /\ UNCHANGED interfaces
    /\ UNCHANGED <<ledgerVars, bootVars, concVars, serverVars>>

getHuobiInterface(kyberENV) ==
    /\ resolved' = [op |-> "getHuobiInterface", exchange |-> "huobi",
                    args |-> kyberENV,
                    result |-> EnvInterface(interfaces["huobi"], kyberENV)]
    /\ UNCHANGED interfaces
    /\ UNCHANGED <<ledgerVars, bootVars, concVars, serverVars>>

NextEnv ==
    \/ \E kyberENV \in EnvTags : getBittrexInterface(kyberENV)
    \/ \E kyberENV \in EnvTags : getBinanceInterface(kyberENV)
    \/ \E kyberENV \in EnvTags : getHuobiInterface(kyberENV)

InitEnv == LedgerInit /\ BootIdle /\ ConcIdle /\ EnvInit /\ ServerIdle

SpecEnv == InitEnv /\ [][NextEnv]_vars

\* C16: the resolver of each exchange returns the Interface its table holds under
\* envTag when there is one and the Interface under the development key otherwise;
\* it always returns an Interface of that exchange, and leaves the table as it was.
C16_ResolverFallsBackToDev ==
    [][ /\ interfaces' = interfaces
        /\ resolved'.op # "none" =>
              LET table == interfaces[resolved'.exchange]
                  envTag == resolved'.args
              IN  /\ resolved'.result =
                        (IF envTag \in DOMAIN table THEN table[envTag] ELSE table[DEV_MODE])
                  /\ resolved'.result \in { table[k] : k \in DOMAIN table } ]_vars

\* C16 witness: getHuobiInterface("ropsten") on a table with entries for dev and
\* mainnet only has returned the dev entry.
C16_Witness ==
    /\ resolved.op = "getHuobiInterface" /\ resolved.args = "ropsten"
    /\ DOMAIN interfaces["huobi"] = {DEV_MODE, "mainnet"}
    /\ resolved.result = InterfaceOf("huobi", DEV_MODE)

(***************************************************************************)
(* HttpRunnerServer: Start and Stop on the http field.  Start stays inside *)
(* ListenAndServe while its server listens; the calls are taken one after  *)
(* the other, a Start counting as made once it is inside ListenAndServe,   *)
(* since nothing guards the http field.                                    *)
(***************************************************************************)

MaxServers == 3   \* http.Server values one HttpRunnerServer makes

ErrStartAlready == "server start already"
ErrStopAlready == "server stop already"
ErrListen == "listen tcp: bind failed"
ErrClose == "close tcp: listener close failed"
ErrServerClosed == "http: Server closed"
\* Shutdown(nil) reaches ctx.Done() on a nil Context when a connection is busy.
PanicNilContext == "panic: nil pointer dereference"

\* The panic of Stop was not recovered: the process is gone.
ServerCrashed == srvRet.err = PanicNilContext

\* Start without the test of self.http.
StartUnchecked(listenOK) ==
    /\ ~ServerCrashed
    /\ created < MaxServers
    /\ LET s == created + 1
       IN  /\ http' = s
           /\ created' = s
           /\ IF listenOK
              THEN /\ listening' = listening \cup {s}
                   /\ blocked' = blocked \cup {s}
                   /\ srvRet' = [op |-> "Start", err |-> NoError, returned |-> FALSE]
              ELSE /\ srvRet' = [op |-> "Start", err |-> ErrListen, returned |-> TRUE]
                   /\ UNCHANGED <<listening, blocked>>
    /\ UNCHANGED <<ledgerVars, bootVars, concVars, envVars>>

\* Start: with no http.Server, make one and call ListenAndServe, which returns at
\* once when it cannot listen and otherwise serves; else the error.
Start(listenOK) ==
    /\ ~ServerCrashed
    /\ IF http = 0
       THEN /\ created < MaxServers
            /\ LET s == created + 1
               IN  /\ http' = s
                   /\ created' = s
                   /\ IF listenOK
                      THEN /\ listening' = listening \cup {s}
                           /\ blocked' = blocked \cup {s}
                           /\ srvRet' = [op |-> "Start", err |-> NoError,
                                         returned |-> FALSE]
                      ELSE /\ srvRet' = [op |-> "Start", err |-> ErrListen,
                                         returned |-> TRUE]
                           /\ UNCHANGED <<listening, blocked>>
       ELSE /\ srvRet' = [op |-> "Start", err |-> ErrStartAlready, returned |-> TRUE]
            /\ UNCHANGED <<http, created, listening, blocked>>
    /\ UNCHANGED <<ledgerVars, bootVars, concVars, envVars>>

\* The listener of a serving http.Server fails: Serve is about to return.
ServeFails(s) ==
    /\ ~ServerCrashed
    /\ s \in listening
    /\ listening' = listening \ {s}
    /\ srvRet' = [op |-> "Serve", err |-> ErrListen, returned |-> FALSE]
    /\ UNCHANGED <<http, created, blocked>>
    /\ UNCHANGED <<ledgerVars, bootVars, concVars, envVars>>

\* ListenAndServe returns in a Start call whose server no longer listens.
StartReturns(s) ==
    /\ ~ServerCrashed
    /\ s \in blocked /\ s \notin listening
    /\ blocked' = blocked \ {s}
    /\ srvRet' = [op |-> "StartReturns", err |-> ErrServerClosed, returned |-> TRUE]
    /\ UNCHANGED <<http, created, listening>>
    /\ UNCHANGED <<ledgerVars, bootVars, concVars, envVars>>

\* Stop: with an http.Server, Shutdown(nil) closes its listener and returns nil or
\* the close error, and http is set to nil; Shutdown panics when a connection is
\* busy, before http is set to nil. Else the error.
Stop(shutdown) ==
    /\ ~ServerCrashed
    /\ IF http # 0
       THEN /\ listening' = listening \ {http}
            /\ IF shutdown = PanicNilContext
               THEN /\ srvRet' = [op |-> "Stop", err |-> PanicNilContext,
                                  returned |-> FALSE]
                    /\ UNCHANGED http
               ELSE /\ srvRet' = [op |-> "Stop", err |-> shutdown, returned |-> TRUE]
                    /\ http' = 0
            /\ UNCHANGED <<created, blocked>>
       ELSE /\ srvRet' = [op |-> "Stop", err |-> ErrStopAlready, returned |-> TRUE]
            /\ UNCHANGED <<http, created, listening, blocked>>
    /\ UNCHANGED <<ledgerVars, bootVars, concVars, envVars>>

NextServer ==
    \/ \E listenOK \in BOOLEAN : Start(listenOK)
    \/ \E shutdown \in {NoError, ErrClose, PanicNilContext} : Stop(shutdown)
    \/ \E s \in 1..MaxServers : ServeFails(s)
    \/ \E s \in 1..MaxServers : StartReturns(s)

SpecServer == Init /\ [][NextServer]_vars

\* C19: in any sequence of Start and Stop calls on one HttpRunnerServer, Start makes
\* a server and a listener only when http is nil and otherwise returns "server
\* start already" and changes nothing; Stop closes the listener and sets http to
\* nil only when http is set and otherwise returns "server stop already" and
\* changes nothing; so there is never more than one listener, and after a Stop
\* that returned a Start is accepted again.
C19_StartStopGuardTheServer ==
    /\ [][ (srvRet'.op = "Start" /\ serverVars' # serverVars)
            => IF http = 0
               THEN /\ http' = created' /\ created' = created + 1
                    /\ srvRet'.err # ErrStartAlready
                    /\ listening' \subseteq listening \cup {http'}
               ELSE /\ srvRet'.err = ErrStartAlready /\ srvRet'.returned
                    /\ UNCHANGED <<http, created, listening, blocked>> ]_vars
    /\ [][ (srvRet'.op = "Stop" /\ serverVars' # serverVars)
            => IF http # 0
               THEN /\ srvRet'.err # ErrStopAlready
                    /\ listening' = listening \ {http}
                    /\ srvRet'.returned => http' = 0
                    /\ UNCHANGED created
               ELSE /\ srvRet'.err = ErrStopAlready /\ srvRet'.returned
                    /\ UNCHANGED <<http, created, listening, blocked>> ]_vars
    /\ [][ srvRet'.op \notin {"Start", "Stop"} => UNCHANGED <<http, created>> ]_vars
    /\ [][ listening' \subseteq listening \cup {http'} ]_vars
    /\ [][ /\ Cardinality(listening') <= 1
           /\ listening' \subseteq {http'} ]_vars

\* C19 witness: Start, Stop, Start: the second Start was accepted, the second
\* server listens, the first does not.
C19_Witness ==
    /\ srvRet.op = "Start" /\ srvRet.err = NoError /\ ~srvRet.returned
    /\ created = 2 /\ http = 2 /\ listening = {2}

(***************************************************************************)
(* GetTradeHistory at the ends of uint64: one pair with records at 0, at   *)
(* T1 and at the largest timestamp, asked with fromTime above toTime.      *)
(***************************************************************************)

WrapRecords == { [ID |-> "lo", Timestamp |-> U64(0)],
                 [ID |-> "a", Timestamp |-> T1],
                 [ID |-> "hi", Timestamp |-> MaxUint64] }
WrapTimes == { U64(0), T1, T2, MaxUint64 }
WrapEntrySeqs ==
    UNION { [1..n -> { <<"binance", "ETH-KNC", r>> : r \in WrapRecords }] :
              n \in 0..MaxRecs }

NextWrap ==
    \/ \E es \in WrapEntrySeqs : StoreTradeHistory(SnapshotOf(es))
    \/ \E fromTime, toTime \in WrapTimes : GetTradeHistory(fromTime, toTime)
    \/ Return

SpecWrap == Init /\ [][NextWrap]_vars

\* C20: toTime - fromTime is computed modulo 2^64, so GetTradeHistory called with
\* fromTime > toTime never returns a record: it returns the range error and no
\* data when the wrapped difference is more than 3 days of milliseconds, and
\* otherwise no error and an empty sequence for every pair of the store.
C20_ReversedRangeReturnsNoRecord ==
    (ret.op = "GetTradeHistory" /\ U64Less(ret.args[2], ret.args[1])) =>
        IF U64Less(U64(3 * 86400000), U64Sub(ret.args[2], ret.args[1]))
        THEN ret.err = ErrTooBroad /\ ret.result = EmptyBucket
        ELSE /\ ret.err = NoError
             /\ DOMAIN ret.result = DOMAIN trade
             /\ \A e \in DOMAIN trade :
                   /\ DOMAIN ret.result[e] = DOMAIN trade[e]
                   /\ \A p \in DOMAIN trade[e] : ret.result[e][p] = << >>

\* C20 witness: GetTradeHistory(2^64 - 1, T1), whose wrapped difference is 257, has
\* returned no error and an empty sequence from a pair that holds a record at 0, at
\* T1 and at 2^64 - 1.
C20_Witness ==
    /\ ret.op = "GetTradeHistory" /\ ret.args = <<MaxUint64, T1>>
    /\ ret.err = NoError
    /\ StoredRecords(trade, "binance", "ETH-KNC") = WrapRecords
    /\ ret.result["binance"]["ETH-KNC"] = << >>

====
